---- MODULE Spec2Model ----
(***************************************************************************)
(* Model of the api-gateway request pipeline: the token bucket limiter,    *)
(* the proxy cache, the router with its middleware chain, the route        *)
(* loader and the configuration hot reload.                                *)
(*                                                                         *)
(* Durations and instants (time.Duration, time.Time) are counted in        *)
(* milliseconds; the clock starts at 0 when the process starts.            *)
(***************************************************************************)
EXTENDS Integers, Sequences, FiniteSets, TLC

VARIABLES
    now,        \* the wall clock read by time.Now()
    limiter,    \* the fields of the one TokenBucketLimiter
    nCalls,     \* Allow() calls made before one refillInterval has elapsed
    lastCall,   \* what the most recent sequential Allow() call saw and returned
    gpc,        \* concurrent callers of Allow(): position of each goroutine
    gloc,       \* concurrent callers of Allow(): locals of each goroutine
    started,    \* concurrent callers of Allow(): calls begun
    granted,    \* concurrent callers of Allow(): calls that returned true
    refilled,   \* concurrent callers of Allow(): some refill() has added tokens
    proxies,    \* ReverseProxy.proxies: target URL string -> cached handler instance
    built,      \* the handler instances constructed so far: built[i] is the target of instance i
    mu,         \* ReverseProxy.mu: 0 when free, else the goroutine holding it
    ppc,        \* concurrent callers of GetProxy(): position of each goroutine
    ploc,       \* concurrent callers of GetProxy(): argument and result of each goroutine
    returned,   \* the <<target, instance>> pairs GetProxy() has returned
    directors,  \* directors[i]: the Director field of handler instance i
    currentCfg, \* main.currentCfg: the configuration the process points at
    routerTable,\* the routes of the mux.Router that r.Router points at, in registration order
    tableCfg,   \* the configuration whose routes the current mux.Router is loaded from
    wpc,        \* the watcher goroutine: "idle", "clear" or "routes"
    widx,       \* the watcher goroutine inside loadRoutes: index of the next route
    lastEvent,  \* how the watcher's latest change event ended: "none", "failed", "loaded"
    events,     \* the change events the watcher has handled
    discovery,  \* what the discovery service answers, per service name
    startup,    \* what main() fixed at startup: limiter on, discovery client, tracer
    reqs,       \* the request goroutines
    call,       \* one request followed layer by layer through its wrapped handler
    rateLimit   \* the rate_limit settings the limiter was built from

limVars   == <<now, limiter, nCalls, lastCall>>
raceVars  == <<gpc, gloc, started, granted, refilled>>
cacheVars == <<proxies, built>>
lockVars  == <<mu, ppc, ploc, returned>>
gwVars    == <<directors, currentCfg, routerTable, tableCfg, wpc, widx, lastEvent, events,
               discovery, startup, reqs>>
\* what the limiter's own steps leave alone
beyondLimiter == <<cacheVars, lockVars, gwVars, call, rateLimit>>
vars      == <<now, limiter, nCalls, lastCall, gpc, gloc, started, granted, refilled,
               proxies, built, mu, ppc, ploc, returned,
               directors, currentCfg, routerTable, tableCfg, wpc, widx, lastEvent, events,
               discovery, startup, reqs, call, rateLimit>>

----------------------------------------------------------------------------
(* Bounds of the model.                                                    *)

\* the clock stops advancing here
MaxClock == 3000
\* Allow() calls explored inside the first refill window
MaxCalls == 7
\* goroutines calling Allow() concurrently
NumCallers == 2
\* concurrent Allow() calls explored
MaxRaceCalls == 3
\* goroutines calling GetProxy() concurrently
NumProxyCallers == 3
\* requests in flight at once
NumRequests == 2
\* change events of the configuration file explored
MaxEvents == 1

(* Program constants.                                                      *)

\* time.Second, in milliseconds
Second == 1000
\* the default of requests
DefaultRequests == 100

\* the amounts by which the clock advances between two steps
ClockSteps == {250, 500, 1000}

\* rate_limit.requests and rate_limit.interval as configured
RequestsInputs == {-1, 0, 1, 2, 3, 5}
IntervalInputs == {-500, 0, 500, 1000, 2000, 3000}

Min(a, b) == IF a < b THEN a ELSE b

----------------------------------------------------------------------------
(* pkg/ratelimiter: TokenBucketLimiter                                     *)

\* NewTokenBucketLimiter(requests, interval), called at instant t.
\* int(float64(requests) / interval.Seconds()) truncates requests * Second / interval.
NewTokenBucketLimiter(requests, interval, t) ==
    LET req  == IF requests <= 0 THEN DefaultRequests ELSE requests
        ival == IF interval <= 0 THEN Second ELSE interval
        rate == (req * Second) \div ival
    IN  IF rate <= 0
        THEN [capacity |-> req, tokens |-> req, refillRate |-> 1,
              refillInterval |-> Second \div req, lastRefillTime |-> t,
              refillPerInterval |-> 1]
        ELSE [capacity |-> req, tokens |-> req, refillRate |-> rate,
              refillInterval |-> ival, lastRefillTime |-> t,
              refillPerInterval |-> req]

\* refill without the cap at capacity
refillUncapped(l, t) ==
    LET elapsedTime == t - l.lastRefillTime
    IN  IF elapsedTime >= l.refillInterval
        THEN [l EXCEPT !.tokens = l.tokens
                           + (elapsedTime \div l.refillInterval) * l.refillPerInterval,
                       !.lastRefillTime = t]
        ELSE l

\* refill that stamps lastRefillTime on every call, also below one interval
refillAlwaysStamps(l, t) ==
    LET elapsedTime == t - l.lastRefillTime
    IN  IF elapsedTime >= l.refillInterval
        THEN LET intervals   == elapsedTime \div l.refillInterval
                 tokensToAdd == intervals * l.refillPerInterval
             IN  [l EXCEPT !.tokens = Min(l.tokens + tokensToAdd, l.capacity),
                           !.lastRefillTime = t]
        ELSE [l EXCEPT !.lastRefillTime = t]

\* limiter.refill() at instant t: the limiter afterwards
refill(l, t) ==
    LET elapsedTime == t - l.lastRefillTime
    IN  IF elapsedTime >= l.refillInterval
        THEN LET intervals   == elapsedTime \div l.refillInterval
                 tokensToAdd == intervals * l.refillPerInterval
             IN  [l EXCEPT !.tokens = Min(l.tokens + tokensToAdd, l.capacity),
                           !.lastRefillTime = t]
        ELSE l

\* Allow that admits on tokens >= 0
AllowAtZero(l, t) ==
    LET r == refill(l, t)
    IN  IF r.tokens >= 0
        THEN [ok |-> TRUE, limiter |-> [r EXCEPT !.tokens = r.tokens - 1]]
        ELSE [ok |-> FALSE, limiter |-> r]

\* limiter.Allow() at instant t, run alone: the result and the limiter afterwards
Allow(l, t) ==
    LET r == refill(l, t)
    IN  IF r.tokens > 0
        THEN [ok |-> TRUE, limiter |-> [r EXCEPT !.tokens = r.tokens - 1]]
        ELSE [ok |-> FALSE, limiter |-> r]

NoCall == [made |-> FALSE, ok |-> FALSE, at |-> 0, elapsed |-> 0, nth |-> 0]

InitProxyCache ==
    /\ proxies = << >>
    /\ built = << >>
    /\ mu = 0
    /\ ppc = [c \in 1..NumProxyCallers |-> "idle"]
    /\ ploc = [c \in 1..NumProxyCallers |-> [target |-> << >>, proxy |-> 0, err |-> FALSE]]
    /\ returned = {}

\* no gateway is running
InitNoGateway ==
    /\ directors = << >>
    /\ currentCfg = "nil"
    /\ routerTable = << >>
    /\ tableCfg = "nil"
    /\ wpc = "idle"
    /\ widx = 1
    /\ lastEvent = "none"
    /\ events = 0
    /\ discovery = << >>
    /\ startup = [limiterOn |-> FALSE, serviceDiscovery |-> FALSE, tracer |-> FALSE]
    /\ reqs = << >>
    /\ call = << >>

InitRace ==
    /\ gpc = [g \in 1..NumCallers |-> "idle"]
    /\ gloc = [g \in 1..NumCallers |-> [t |-> 0, v |-> 0]]
    /\ started = 0
    /\ granted = 0
    /\ refilled = FALSE

----------------------------------------------------------------------------
(* The limiter called by one goroutine at a time.                          *)

InitLimiter ==
    /\ now = 0
    /\ \E requests \in RequestsInputs, interval \in IntervalInputs :
           /\ rateLimit = [Requests |-> requests, Interval |-> interval]
           /\ limiter = NewTokenBucketLimiter(requests, interval, 0)
    /\ nCalls = 0
    /\ lastCall = NoCall
    /\ InitRace
    /\ InitProxyCache
    /\ InitNoGateway

\* time passes
AdvanceClock ==
    /\ \E d \in ClockSteps :
           /\ now + d <= MaxClock
           /\ now' = now + d
    /\ UNCHANGED <<limiter, nCalls, lastCall, raceVars, beyondLimiter>>

\* one call of Allow()
CallAllow ==
    /\ now >= limiter.refillInterval \/ nCalls < MaxCalls
    /\ LET res == Allow(limiter, now)
           nth == IF now < limiter.refillInterval THEN nCalls + 1 ELSE nCalls
       IN  /\ limiter' = res.limiter
           /\ nCalls' = nth
           /\ lastCall' = [made |-> TRUE, ok |-> res.ok, at |-> now,
                           elapsed |-> now - limiter.lastRefillTime, nth |-> nth]
    /\ UNCHANGED <<now, raceVars, beyondLimiter>>

NextLimiter == AdvanceClock \/ CallAllow

SpecLimiter == InitLimiter /\ [][NextLimiter]_vars

----------------------------------------------------------------------------
\* C1: after any sequence of Allow() calls and clock advances the token
\* count is at least 0 and at most the capacity.
C1_TokensWithinCapacity ==
    /\ limiter.tokens >= 0
    /\ limiter.tokens <= limiter.capacity

\* a call after an idle period of several intervals has refilled a drained bucket
C1_Witness ==
    /\ lastCall.made
    /\ lastCall.elapsed >= 2 * limiter.refillInterval
    /\ limiter.tokens = limiter.capacity - 1
    /\ limiter.capacity >= 2

\* C8: a fresh limiter of capacity c admits each of the first c calls made
\* before one refill interval has elapsed, denies call c+1 of that window, and
\* admits the next call once a refill interval has elapsed.
C8_FreshWindow ==
    lastCall.made =>
        /\ (lastCall.at < limiter.refillInterval /\ lastCall.nth <= limiter.capacity)
               => lastCall.ok
        /\ (lastCall.at < limiter.refillInterval /\ lastCall.nth = limiter.capacity + 1)
               => ~lastCall.ok
        /\ lastCall.elapsed >= limiter.refillInterval => lastCall.ok

\* capacity 5, interval 1s: the sixth call of the first window was denied
C8_Witness ==
    /\ limiter.capacity = 5
    /\ limiter.refillInterval = Second
    /\ lastCall.made
    /\ lastCall.at < Second
    /\ lastCall.nth = 6
    /\ ~lastCall.ok

----------------------------------------------------------------------------
(* The limiter called by several request goroutines at once, as the rate   *)
(* limiting middleware does.  Allow() and refill() take no lock, so every  *)
(* load and store of a limiter field is a step of its own.                 *)

Callers == 1..NumCallers
RaceRequests == {1, 2, 3}

InitAllowRace ==
    /\ now = 0
    /\ \E requests \in RaceRequests :
           /\ rateLimit = [Requests |-> requests, Interval |-> Second]
           /\ limiter = NewTokenBucketLimiter(requests, Second, 0)
    /\ nCalls = 0
    /\ lastCall = NoCall
    /\ InitRace
    /\ InitProxyCache
    /\ InitNoGateway

\* time passes while calls are in flight
RaceClock ==
    /\ now + Second <= MaxClock
    /\ now' = now + Second
    /\ UNCHANGED <<limiter, nCalls, lastCall, raceVars, beyondLimiter>>

Goto(g, pc) == gpc' = [gpc EXCEPT ![g] = pc]

\* refill(): now := time.Now(); elapsedTime := now.Sub(lastRefillTime); the test
RefillElapsed(g) ==
    /\ gpc[g] = "idle"
    /\ started < MaxRaceCalls
    /\ started' = started + 1
    /\ LET elapsedTime == now - limiter.lastRefillTime
       IN  IF elapsedTime >= limiter.refillInterval
           THEN /\ gloc' = [gloc EXCEPT ![g] =
                       [t |-> now,
                        v |-> (elapsedTime \div limiter.refillInterval)
                                  * limiter.refillPerInterval]]
                /\ Goto(g, "refill_add")
           ELSE /\ gloc' = [gloc EXCEPT ![g] = [t |-> now, v |-> 0]]
                /\ Goto(g, "test")
    /\ UNCHANGED <<limVars, granted, refilled, beyondLimiter>>

\* refill(): limiter.tokens += tokensToAdd, the load and the store in one step
\* (two steps would only add outcomes)
RefillAdd(g) ==
    /\ gpc[g] = "refill_add"
    /\ limiter' = [limiter EXCEPT !.tokens = limiter.tokens + gloc[g].v]
    /\ refilled' = TRUE
    /\ Goto(g, "refill_cap")
    /\ UNCHANGED <<now, nCalls, lastCall, gloc, started, granted, beyondLimiter>>

\* refill(): if limiter.tokens > limiter.capacity { limiter.tokens = capacity }
RefillCap(g) ==
    /\ gpc[g] = "refill_cap"
    /\ limiter' = IF limiter.tokens > limiter.capacity
                  THEN [limiter EXCEPT !.tokens = limiter.capacity]
                  ELSE limiter
    /\ Goto(g, "refill_stamp")
    /\ UNCHANGED <<now, nCalls, lastCall, gloc, started, granted, refilled, beyondLimiter>>

\* refill(): limiter.lastRefillTime = now
RefillStamp(g) ==
    /\ gpc[g] = "refill_stamp"
    /\ limiter' = [limiter EXCEPT !.lastRefillTime = gloc[g].t]
    /\ Goto(g, "test")
    /\ UNCHANGED <<now, nCalls, lastCall, gloc, started, granted, refilled, beyondLimiter>>

\* Allow(): if limiter.tokens > 0, else return false
AllowTest(g) ==
    /\ gpc[g] = "test"
    /\ IF limiter.tokens > 0
       THEN Goto(g, "dec_load")
       ELSE Goto(g, "idle")
    /\ UNCHANGED <<limVars, gloc, started, granted, refilled, beyondLimiter>>

\* Allow(): limiter.tokens--, the load
AllowDecLoad(g) ==
    /\ gpc[g] = "dec_load"
    /\ gloc' = [gloc EXCEPT ![g].v = limiter.tokens]
    /\ Goto(g, "dec_store")
    /\ UNCHANGED <<limVars, started, granted, refilled, beyondLimiter>>

\* Allow(): limiter.tokens--, the store; return true
AllowDecStore(g) ==
    /\ gpc[g] = "dec_store"
    /\ limiter' = [limiter EXCEPT !.tokens = gloc[g].v - 1]
    /\ granted' = granted + 1
    /\ Goto(g, "idle")
    /\ UNCHANGED <<now, nCalls, lastCall, gloc, started, refilled, beyondLimiter>>

NextAllowRace ==
    \/ RaceClock
    \/ \E g \in Callers :
           \/ RefillElapsed(g)
           \/ RefillAdd(g)
           \/ RefillCap(g)
           \/ RefillStamp(g)
           \/ AllowTest(g)
           \/ AllowDecLoad(g)
           \/ AllowDecStore(g)

SpecAllowRace == InitAllowRace /\ [][NextAllowRace]_vars

\* C2: concurrent Allow() calls behave as some sequential order of them: the
\* token count stays within [0, capacity] and, while no refill has happened, a
\* bucket holding k tokens admits at most k calls.
C2_AllowSerialized ==
    /\ limiter.tokens >= 0
    /\ (\A g \in Callers : gpc[g] # "refill_cap") => limiter.tokens <= limiter.capacity
    /\ ~refilled => granted <= limiter.capacity

----------------------------------------------------------------------------
(* Strings that hold URLs are sequences of lexical tokens:                 *)
(* "http://10.0.0.5:9000" is <<"http", "://", "10.0.0.5", ":", "9000">>.    *)

EmptyString == << >>
PathTokens == {"/", "/api/users", "/api/orders", "/v1"}

\* the token of an ASCII control character
ControlChar == "<0x7f>"

\* fmt.Sprintf("http://%s:%d", host, port)
SprintfTarget(host, port) == <<"http", "://", host, ":", port>>

\* the index of the first path token of u from position i on, Len(u) + 1 if none
RECURSIVE PathStart(_, _)
PathStart(u, i) ==
    IF i > Len(u) THEN Len(u) + 1
    ELSE IF u[i] \in PathTokens THEN i
    ELSE PathStart(u, i + 1)

\* url.Parse(u): a control character or a missing scheme before "://" is an
\* error; scheme://authority/path splits into its parts; anything else is a
\* URL with a path only
UrlParse(u) ==
    IF \E i \in 1..Len(u) : u[i] = ControlChar
    THEN [err |-> TRUE, Scheme |-> EmptyString, Host |-> EmptyString, Path |-> EmptyString]
    ELSE IF Len(u) >= 1 /\ u[1] \in {"://", ":"}
    THEN [err |-> TRUE, Scheme |-> EmptyString, Host |-> EmptyString, Path |-> EmptyString]
    ELSE IF Len(u) >= 2 /\ u[2] = "://"
    THEN LET p == PathStart(u, 3)
         IN  [err |-> FALSE, Scheme |-> <<u[1]>>, Host |-> SubSeq(u, 3, p - 1),
              Path |-> SubSeq(u, p, Len(u))]
    ELSE [err |-> FALSE, Scheme |-> EmptyString, Host |-> EmptyString, Path |-> u]

----------------------------------------------------------------------------
(* internal/proxy: ReverseProxy, the cache of forwarding handlers          *)

\* a key that drops the host and the port of the target
CacheKeySchemeOnly(target) == IF Len(target) > 1 THEN SubSeq(target, 1, 1) ELSE target

\* the key of a target in rp.proxies: the target URL string itself
CacheKey(target) == target

\* p, ok := rp.proxies[targetURLStr]
CacheHas(ps, target) == CacheKey(target) \in DOMAIN ps
CacheGet(ps, target) == ps[CacheKey(target)]

\* rp.proxies[targetURLStr] = proxy
CacheInsert(ps, target, inst) ==
    [t \in DOMAIN ps \cup {CacheKey(target)} |-> IF t = CacheKey(target) THEN inst ELSE ps[t]]

\* rp.mu.Lock() returns at once whoever holds the lock
LockAlwaysFree(m) == TRUE

\* rp.mu.Lock() can return: nobody holds the lock
LockFree(m) == m = 0

\* GetProxy that records the string that failed to parse in the cache
GetProxyCachesFailure(ps, insts, target) ==
    IF CacheHas(ps, target)
    THEN [proxy |-> CacheGet(ps, target), err |-> FALSE, proxies |-> ps, built |-> insts]
    ELSE IF UrlParse(target).err
    THEN [proxy |-> 0, err |-> TRUE, proxies |-> CacheInsert(ps, target, 0), built |-> insts]
    ELSE [proxy |-> Len(insts) + 1, err |-> FALSE,
          proxies |-> CacheInsert(ps, target, Len(insts) + 1),
          built |-> Append(insts, target)]

\* the body of GetProxy(target) run under the lock: the handler returned, the
\* error, and the cache and the constructed instances afterwards
GetProxy(ps, insts, target) ==
    IF CacheHas(ps, target)
    THEN [proxy |-> CacheGet(ps, target), err |-> FALSE, proxies |-> ps, built |-> insts]
    ELSE IF UrlParse(target).err
    THEN [proxy |-> 0, err |-> TRUE, proxies |-> ps, built |-> insts]
    ELSE [proxy |-> Len(insts) + 1, err |-> FALSE,
          proxies |-> CacheInsert(ps, target, Len(insts) + 1),
          built |-> Append(insts, target)]

----------------------------------------------------------------------------
(* GetProxy() called by several goroutines at once.                        *)

ProxyCallers == 1..NumProxyCallers

\* the strings GetProxy() is called with
TargetInputs ==
    { SprintfTarget("10.0.0.5", "9000"),
      SprintfTarget("10.0.0.6", "9000"),
      <<"://", "10.0.0.5">> }

InitGetProxy ==
    /\ now = 0
    /\ rateLimit = [Requests |-> 1, Interval |-> Second]
    /\ limiter = NewTokenBucketLimiter(1, Second, 0)
    /\ nCalls = 0
    /\ lastCall = NoCall
    /\ InitRace
    /\ InitProxyCache
    /\ InitNoGateway

\* rp.mu.Lock()
ProxyLock(c) ==
    /\ ppc[c] = "idle"
    /\ LockFree(mu)
    /\ mu' = c
    /\ \E target \in TargetInputs :
           ploc' = [ploc EXCEPT ![c] = [target |-> target, proxy |-> 0, err |-> FALSE]]
    /\ ppc' = [ppc EXCEPT ![c] = "lookup"]
    /\ UNCHANGED <<limVars, raceVars, cacheVars, returned, gwVars, call, rateLimit>>

\* if p, ok := rp.proxies[targetURLStr]; ok { return p, nil }
ProxyLookup(c) ==
    /\ ppc[c] = "lookup"
    /\ IF CacheHas(proxies, ploc[c].target)
       THEN /\ ploc' = [ploc EXCEPT ![c].proxy = CacheGet(proxies, ploc[c].target)]
            /\ ppc' = [ppc EXCEPT ![c] = "unlock"]
       ELSE /\ ploc' = ploc
            /\ ppc' = [ppc EXCEPT ![c] = "create"]
    /\ UNCHANGED <<limVars, raceVars, cacheVars, mu, returned, gwVars, call, rateLimit>>

\* url.Parse, the construction of the handler and its insertion
ProxyCreate(c) ==
    /\ ppc[c] = "create"
    /\ IF UrlParse(ploc[c].target).err
       THEN /\ ploc' = [ploc EXCEPT ![c].err = TRUE]
            /\ UNCHANGED cacheVars
       ELSE /\ built' = Append(built, ploc[c].target)
            /\ proxies' = CacheInsert(proxies, ploc[c].target, Len(built) + 1)
            /\ ploc' = [ploc EXCEPT ![c].proxy = Len(built) + 1]
    /\ ppc' = [ppc EXCEPT ![c] = "unlock"]
    /\ UNCHANGED <<limVars, raceVars, mu, returned, gwVars, call, rateLimit>>

\* the deferred rp.mu.Unlock() and the return
ProxyUnlock(c) ==
    /\ ppc[c] = "unlock"
    /\ mu' = IF mu = c THEN 0 ELSE mu
    /\ returned' = IF ploc[c].err THEN returned
                   ELSE returned \cup {<<ploc[c].target, ploc[c].proxy>>}
    /\ ppc' = [ppc EXCEPT ![c] = "idle"]
    /\ UNCHANGED <<limVars, raceVars, cacheVars, ploc, gwVars, call, rateLimit>>

NextGetProxy ==
    \E c \in ProxyCallers :
        \/ ProxyLock(c)
        \/ ProxyLookup(c)
        \/ ProxyCreate(c)
        \/ ProxyUnlock(c)

SpecGetProxy == InitGetProxy /\ [][NextGetProxy]_vars

\* C6: under every interleaving of GetProxy calls at most one handler instance
\* is ever constructed for a target string, every call with that string returns
\* that instance, and a cached entry is never dropped or replaced.
C6_OneHandlerPerTarget ==
    /\ \A i, j \in 1..Len(built) : built[i] = built[j] => i = j
    /\ \A i \in 1..Len(built) : CacheHas(proxies, built[i]) /\ proxies[built[i]] = i
    /\ \A r \in returned : CacheHas(proxies, r[1]) /\ proxies[r[1]] = r[2]
    /\ \A t \in DOMAIN proxies : proxies[t] \in 1..Len(built) /\ built[proxies[t]] = t

\* one goroutine has been handed the instance of a target, a second call with
\* the same target is about to return that same instance, and the cache holds
\* two instances in all
C6_Witness ==
    \E c, d \in ProxyCallers :
        /\ c # d
        /\ ppc[c] = "unlock" /\ ~ploc[c].err
        /\ ppc[d] = "idle" /\ ploc[d].target = ploc[c].target
        /\ <<ploc[d].target, ploc[d].proxy>> \in returned
        /\ ploc[c].proxy = ploc[d].proxy
        /\ Len(built) = 2

----------------------------------------------------------------------------
(* internal/config: the configuration snapshots the configuration file can *)
(* hold.  A *config.Config is named by the snapshot it was parsed from.    *)

RouteConfig(path, targetURL, serviceName, timeout) ==
    [Path |-> path, TargetURL |-> targetURL, ServiceName |-> serviceName,
     Timeout |-> timeout]

\* the layout of config/config.yaml: every route resolved through discovery
ConfigA ==
    [RateLimit |-> [Enabled |-> TRUE, Requests |-> 2, Interval |-> 1000],
     Auth |-> [Enabled |-> FALSE, Type |-> "jwt", OAuth2Enabled |-> FALSE],
     ServiceDiscovery |-> [Enabled |-> TRUE, Type |-> "consul"],
     Jaeger |-> [Enabled |-> FALSE],
     Routes |-> << RouteConfig("/api/users", EmptyString, "user-service", "5s"),
                   RouteConfig("/api/orders", EmptyString, "order-service", "10s") >>]

\* JWT authentication; static routes, one written host:port with a bad timeout
ConfigB ==
    [RateLimit |-> [Enabled |-> TRUE, Requests |-> 1, Interval |-> 1000],
     Auth |-> [Enabled |-> TRUE, Type |-> "jwt", OAuth2Enabled |-> FALSE],
     ServiceDiscovery |-> [Enabled |-> TRUE, Type |-> "consul"],
     Jaeger |-> [Enabled |-> TRUE],
     Routes |-> << RouteConfig("/api/users", SprintfTarget("10.0.0.5", "9000"), "", "1s"),
                   RouteConfig("/api/orders", <<"localhost", ":", "8081">>, "", "soon") >>]

\* OAuth2; no limiter, no discovery; a route whose static URL does not parse,
\* and a route with both a static URL and a service name
ConfigC ==
    [RateLimit |-> [Enabled |-> FALSE, Requests |-> 0, Interval |-> 0],
     Auth |-> [Enabled |-> TRUE, Type |-> "oauth2", OAuth2Enabled |-> TRUE],
     ServiceDiscovery |-> [Enabled |-> FALSE, Type |-> "none"],
     Jaeger |-> [Enabled |-> FALSE],
     Routes |-> << RouteConfig("/v1", <<"://", "10.0.0.5">>, "", "5s"),
                   RouteConfig("/api/users", <<"localhost", ":", "8081">>,
                               "user-service", "1s") >>]

\* a Config with every field zero
ZeroConfig ==
    [RateLimit |-> [Enabled |-> FALSE, Requests |-> 0, Interval |-> 0],
     Auth |-> [Enabled |-> FALSE, Type |-> "", OAuth2Enabled |-> FALSE],
     ServiceDiscovery |-> [Enabled |-> FALSE, Type |-> ""],
     Jaeger |-> [Enabled |-> FALSE],
     Routes |-> << >>]

ConfigIds == {"A", "B", "C"}
\* what the configuration file can hold when a change event is handled
FileContents == ConfigIds \cup {"malformed"}

\* the Config a pointer refers to
Cfg(c) ==
    CASE c = "A" -> ConfigA
      [] c = "B" -> ConfigB
      [] c = "C" -> ConfigC
      [] OTHER   -> ZeroConfig

\* config.LoadConfig(path) when the file holds `content`
LoadConfig(content) ==
    IF content \in ConfigIds
    THEN [cfg |-> content, err |-> FALSE]
    ELSE [cfg |-> "nil", err |-> TRUE]

\* time.ParseDuration(s), in milliseconds
ParseDuration(str) ==
    CASE str = "1s"  -> [d |-> 1000, err |-> FALSE]
      [] str = "5s"  -> [d |-> 5000, err |-> FALSE]
      [] str = "10s" -> [d |-> 10000, err |-> FALSE]
      [] OTHER       -> [d |-> 0, err |-> TRUE]

----------------------------------------------------------------------------
(* internal/service/consul: what GetServiceInstances can answer            *)

Instance(host, port) == [Host |-> host, Port |-> port]
ServiceNames == {"user-service", "order-service"}

\* an answer is an error or a list of healthy instances
DiscoveryAnswers ==
    { [err |-> TRUE,  instances |-> << >>],
      [err |-> FALSE, instances |-> << >>],
      [err |-> FALSE, instances |-> <<Instance("10.0.0.5", "9000")>>],
      [err |-> FALSE, instances |-> <<Instance("10.0.0.6", "9000"),
                                      Instance("10.0.0.5", "9000")>>] }

\* serviceDiscovery.GetServiceInstances(name)
GetServiceInstances(disc, name) ==
    IF name \in DOMAIN disc THEN disc[name] ELSE [err |-> FALSE, instances |-> << >>]

----------------------------------------------------------------------------
(* internal/router and internal/handler                                    *)

\* the middlewares in the order main() passes them to r.Use
Middlewares ==
    <<"Recover", "RequestLogger", "Metrics", "RateLimiter", "Auth", "OAuth2", "Tracing">>

NoHandler ==
    [kind |-> "none", proxy |-> 0, targetURL |-> EmptyString, timeout |-> 0,
     chain |-> << >>]

\* handler.ProxyHandler(proxy, targetURL, timeout, logger): the closure
ProxyHandler(proxy, targetURL, timeout) ==
    [kind |-> "proxy", proxy |-> proxy, targetURL |-> targetURL, timeout |-> timeout,
     chain |-> << >>]

\* metrics.PrometheusHandler()
PrometheusHandler ==
    [kind |-> "prometheus", proxy |-> 0, targetURL |-> EmptyString, timeout |-> 0,
     chain |-> << >>]

\* the loop run forwards: the first middleware wraps first and ends up innermost
RECURSIVE WrapForwards(_, _, _)
WrapForwards(ms, i, handler) ==
    IF i < 1 THEN handler
    ELSE WrapForwards(ms, i - 1, [handler EXCEPT !.chain = handler.chain \o <<ms[i]>>])

\* Router.HandleFunc: the loop for i := len(r.middlewares)-1; i >= 0; i-- wraps the
\* handler in middleware i; chain lists the wrappers from the outermost inwards
RECURSIVE WrapFrom(_, _, _)
WrapFrom(ms, i, handler) ==
    IF i < 1 THEN handler
    ELSE WrapFrom(ms, i - 1, [handler EXCEPT !.chain = <<ms[i]>> \o handler.chain])

\* Router.HandleFunc(path, handler): the routes of r.Router afterwards
HandleFunc(tbl, path, handler) ==
    Append(tbl, [path |-> path, handler |-> WrapFrom(Middlewares, Len(Middlewares), handler)])

\* Router.ClearRoutes(): r.Router = mux.NewRouter()
ClearRoutes == << >>

\* mux.Router.Match: the handler of the first registered route whose path is the
\* request's, NoHandler when there is none
RECURSIVE Match(_, _, _)
Match(tbl, path, i) ==
    IF i > Len(tbl) THEN NoHandler
    ELSE IF tbl[i].path = path THEN tbl[i].handler
    ELSE Match(tbl, path, i + 1)

\* the Director GetProxy gives a new handler: it rewrites scheme, host and path to
\* those of the parsed target
GetProxyDirector(target) == [by |-> "GetProxy", targetURL |-> target]

\* the director closure of ProxyHandler
HandlerDirector(targetURL) == [by |-> "ProxyHandler", targetURL |-> targetURL]

\* the outbound URL a Director makes of a request for `path`
ApplyDirector(d, path) ==
    IF d.by = "GetProxy"
    THEN LET u == UrlParse(d.targetURL)
         IN  [Scheme |-> u.Scheme, Host |-> u.Host, Path |-> u.Path]
    ELSE [Scheme |-> <<"http">>, Host |-> d.targetURL, Path |-> <<path>>]

----------------------------------------------------------------------------
(* cmd/gateway: loadRoutes                                                 *)

\* the resolution that prefers the static URL and asks discovery only without one
ResolveTargetStaticFirst(route, sd, disc) ==
    IF route.TargetURL # EmptyString
    THEN [skip |-> FALSE, targetURL |-> route.TargetURL]
    ELSE IF route.ServiceName # "" /\ sd
    THEN LET ans == GetServiceInstances(disc, route.ServiceName)
         IN  IF ans.err \/ Len(ans.instances) = 0
             THEN [skip |-> TRUE, targetURL |-> EmptyString]
             ELSE [skip |-> FALSE,
                   targetURL |-> SprintfTarget(ans.instances[1].Host, ans.instances[1].Port)]
    ELSE [skip |-> TRUE, targetURL |-> EmptyString]

\* the target of a route: [skip, targetURL]
ResolveTarget(route, sd, disc) ==
    IF route.ServiceName # "" /\ sd
    THEN LET ans == GetServiceInstances(disc, route.ServiceName)
         IN  IF ans.err \/ Len(ans.instances) = 0
             THEN [skip |-> TRUE, targetURL |-> EmptyString]
             ELSE [skip |-> FALSE,
                   targetURL |-> SprintfTarget(ans.instances[1].Host, ans.instances[1].Port)]
    ELSE [skip |-> route.TargetURL = EmptyString, targetURL |-> route.TargetURL]

\* the default of a route's timeout, 10 * time.Second
DefaultTimeout == 10000

\* the iteration that registers the route although GetProxy returned an error
LoadRouteIgnoringError(route, sd, disc, st) ==
    LET res == ResolveTarget(route, sd, disc)
        dur == ParseDuration(route.Timeout)
        timeout == IF dur.err THEN DefaultTimeout ELSE dur.d
        got == GetProxy(st.proxies, st.built, res.targetURL)
    IN  IF res.skip THEN st
        ELSE [table |-> HandleFunc(st.table, route.Path,
                                   ProxyHandler(got.proxy, res.targetURL, timeout)),
              proxies |-> got.proxies,
              built |-> got.built,
              directors |-> IF Len(got.built) > Len(st.built)
                            THEN Append(st.directors, GetProxyDirector(res.targetURL))
                            ELSE st.directors]

\* the iteration that keeps the zero duration of a failed time.ParseDuration
LoadRouteKeepsZeroTimeout(route, sd, disc, st) ==
    LET res == ResolveTarget(route, sd, disc)
        timeout == ParseDuration(route.Timeout).d
        got == GetProxy(st.proxies, st.built, res.targetURL)
    IN  IF res.skip THEN st
        ELSE IF got.err THEN [st EXCEPT !.proxies = got.proxies, !.built = got.built]
        ELSE [table |-> HandleFunc(st.table, route.Path,
                                   ProxyHandler(got.proxy, res.targetURL, timeout)),
              proxies |-> got.proxies,
              built |-> got.built,
              directors |-> IF Len(got.built) > Len(st.built)
                            THEN Append(st.directors, GetProxyDirector(res.targetURL))
                            ELSE st.directors]

\* one iteration of the loop of loadRoutes over `route`: the router's routes, the
\* proxy cache, the handler instances and their Directors afterwards
LoadRoute(route, sd, disc, st) ==
    LET res == ResolveTarget(route, sd, disc)
        dur == ParseDuration(route.Timeout)
        timeout == IF dur.err THEN DefaultTimeout ELSE dur.d
        got == GetProxy(st.proxies, st.built, res.targetURL)
    IN  IF res.skip THEN st
        ELSE IF got.err THEN [st EXCEPT !.proxies = got.proxies, !.built = got.built]
        ELSE [table |-> HandleFunc(st.table, route.Path,
                                   ProxyHandler(got.proxy, res.targetURL, timeout)),
              proxies |-> got.proxies,
              built |-> got.built,
              directors |-> IF Len(got.built) > Len(st.built)
                            THEN Append(st.directors, GetProxyDirector(res.targetURL))
                            ELSE st.directors]

\* the whole loop of loadRoutes from route i on
RECURSIVE LoadRoutesFrom(_, _, _, _, _)
LoadRoutesFrom(routes, i, sd, disc, st) ==
    IF i > Len(routes) THEN st
    ELSE LoadRoutesFrom(routes, i + 1, sd, disc, LoadRoute(routes[i], sd, disc, st))

----------------------------------------------------------------------------
(* The running gateway: request goroutines, the watcher goroutine that     *)
(* reloads the configuration, the discovery service and the backends.      *)
(* A step is one access to state that goroutines share; the middlewares    *)
(* that touch none (Recover, RequestLogger, Metrics, Tracing) run inside   *)
(* the step that reaches them.  The requests explored all arrive within    *)
(* the first refill window of the limiter: the clock stands still here,    *)
(* and the limiter's behaviour over time is explored on its own above.     *)

Requests == 1..NumRequests
ReqPaths == {"/api/users", "/api/orders", "/metrics"}
LocalMiddlewares == {"Recover", "RequestLogger", "Metrics", "Tracing"}

\* the addresses a backend listens on
BackendAddrs ==
    { <<"10.0.0.5", ":", "9000">>, <<"10.0.0.6", ":", "9000">>,
      <<"localhost", ":", "8081">> }
\* what a backend answers; 0 stands for no answer before the timeout
BackendAnswers == {200, 500, 0}

NoOut == [sent |-> FALSE, Scheme |-> EmptyString, Host |-> EmptyString, Path |-> EmptyString]

IdleReq ==
    [pc |-> "idle", path |-> "", cred |-> "unread", idx |-> 0, handler |-> NoHandler,
     status |-> 0, cfgSeen |-> "none", tblCfg |-> "none", tblPartial |-> FALSE,
     out |-> NoOut, upstream |-> 0, limited |-> FALSE, deadline |-> 0]

\* requests followed layer by layer, one after the other
MaxServed == 3

\* how long a backend takes to answer, in milliseconds
BackendDelays == {100, 3000, 20000}

IdleCall ==
    [pc |-> "idle", path |-> "", cred |-> "none", handler |-> NoHandler, next |-> 1,
     stack |-> << >>, log |-> << >>, status |-> 0, panic |-> FALSE, faulted |-> FALSE,
     ran |-> FALSE, out |-> NoOut, upstream |-> 0, delay |-> 0, waited |-> 0,
     served |-> 0]

\* the first position from i on of a middleware that touches shared state
RECURSIVE NextShared(_, _)
NextShared(chain, i) ==
    IF i > Len(chain) THEN i
    ELSE IF chain[i] \in LocalMiddlewares THEN NextShared(chain, i + 1)
    ELSE i

\* the snapshots of the discovery service
DiscoveryStates ==
    { [n \in ServiceNames |->
          IF n = "user-service"
          THEN [err |-> FALSE, instances |-> <<Instance("10.0.0.5", "9000")>>]
          ELSE [err |-> FALSE, instances |-> <<Instance("10.0.0.6", "9000"),
                                               Instance("10.0.0.5", "9000")>>]],
      [n \in ServiceNames |->
          IF n = "user-service"
          THEN [err |-> FALSE, instances |-> <<Instance("10.0.0.6", "9000"),
                                               Instance("10.0.0.5", "9000")>>]
          ELSE [err |-> TRUE, instances |-> << >>]],
      [n \in ServiceNames |->
          IF n = "user-service"
          THEN [err |-> FALSE, instances |-> << >>]
          ELSE [err |-> FALSE, instances |-> <<Instance("10.0.0.6", "9000")>>]] }

EmptyLoad == [table |-> << >>, proxies |-> << >>, built |-> << >>, directors |-> << >>]

\* main(): the state when the server starts to listen
Init ==
    /\ now = 0
    /\ nCalls = 0
    /\ lastCall = NoCall
    /\ InitRace
    /\ mu = 0
    /\ ppc = [c \in 1..NumProxyCallers |-> "idle"]
    /\ ploc = [c \in 1..NumProxyCallers |-> [target |-> << >>, proxy |-> 0, err |-> FALSE]]
    /\ returned = {}
    /\ \E c \in ConfigIds, disc \in DiscoveryStates :
           LET cfg == Cfg(c)
               sd == cfg.ServiceDiscovery.Enabled /\ cfg.ServiceDiscovery.Type = "consul"
               st == LoadRoutesFrom(cfg.Routes, 1, sd, disc, EmptyLoad)
           IN  /\ currentCfg = c
               /\ tableCfg = c
               /\ discovery = disc
               /\ startup = [limiterOn |-> cfg.RateLimit.Enabled, serviceDiscovery |-> sd,
                             tracer |-> cfg.Jaeger.Enabled]
               /\ rateLimit = [Requests |-> cfg.RateLimit.Requests,
                                Interval |-> cfg.RateLimit.Interval]
               /\ limiter = NewTokenBucketLimiter(cfg.RateLimit.Requests,
                                                  cfg.RateLimit.Interval, 0)
               /\ routerTable = HandleFunc(st.table, "/metrics", PrometheusHandler)
               /\ proxies = st.proxies
               /\ built = st.built
               /\ directors = st.directors
    /\ wpc = "idle"
    /\ widx = 1
    /\ lastEvent = "none"
    /\ events = 0
    /\ reqs = [q \in Requests |-> IdleReq]
    /\ call = IdleCall

\* what the steps of the gateway leave alone
beyondGateway == <<nCalls, lastCall, raceVars, lockVars, call, rateLimit>>

\* the discovery service changes its answers
DiscoveryChanges ==
    /\ \E disc \in DiscoveryStates : disc # discovery /\ discovery' = disc
    /\ UNCHANGED <<now, limiter, cacheVars, directors, currentCfg, routerTable, tableCfg,
                   wpc, widx, lastEvent, events, startup, reqs, beyondGateway>>

(* The watcher goroutine. *)

\* the reload that goes on whatever LoadConfig returned
ReloadRegardless(err) == TRUE

\* if newCfg, err := config.LoadConfig(configPath); err == nil
ReloadProceeds(err) == ~err

\* a change event arrives while the file holds `content`: LoadConfig, and on
\* success updateConfig; on failure the error is logged
WatchEvent(content) ==
    /\ wpc = "idle"
    /\ events < MaxEvents
    /\ events' = events + 1
    /\ LET loaded == LoadConfig(content)
       IN  /\ lastEvent' = IF loaded.err THEN "failed" ELSE "loaded"
           /\ IF ReloadProceeds(loaded.err)
              THEN /\ currentCfg' = loaded.cfg
                   /\ wpc' = "clear"
              ELSE UNCHANGED <<currentCfg, wpc>>
    /\ UNCHANGED <<now, limiter, cacheVars, directors, routerTable, tableCfg, widx,
                   discovery, startup, reqs, beyondGateway>>

\* the rebuild that also makes a new token bucket for the handlers it wraps
LoadRoutesClearNewLimiter ==
    /\ wpc = "clear"
    /\ routerTable' = ClearRoutes
    /\ tableCfg' = currentCfg
    /\ widx' = 1
    /\ wpc' = IF Len(Cfg(currentCfg).Routes) = 0 THEN "idle" ELSE "routes"
    /\ limiter' = NewTokenBucketLimiter(rateLimit.Requests, rateLimit.Interval, now)
    /\ UNCHANGED <<now, cacheVars, directors, currentCfg, lastEvent, events,
                   discovery, startup, reqs, beyondGateway>>

\* loadRoutes: routes := currentCfg.Routes; r.ClearRoutes()
LoadRoutesClear ==
    /\ wpc = "clear"
    /\ routerTable' = ClearRoutes
    /\ tableCfg' = currentCfg
    /\ widx' = 1
    /\ wpc' = IF Len(Cfg(currentCfg).Routes) = 0 THEN "idle" ELSE "routes"
    /\ UNCHANGED <<now, limiter, cacheVars, directors, currentCfg, lastEvent, events,
                   discovery, startup, reqs, beyondGateway>>

\* loadRoutes: one iteration of the loop
LoadRoutesStep ==
    /\ wpc = "routes"
    /\ LET routes == Cfg(currentCfg).Routes
           st == LoadRoute(routes[widx], startup.serviceDiscovery, discovery,
                           [table |-> routerTable, proxies |-> proxies, built |-> built,
                            directors |-> directors])
       IN  /\ routerTable' = st.table
           /\ proxies' = st.proxies
           /\ built' = st.built
           /\ directors' = st.directors
           /\ widx' = IF widx = Len(routes) THEN 1 ELSE widx + 1
           /\ wpc' = IF widx = Len(routes) THEN "idle" ELSE "routes"
    /\ UNCHANGED <<now, limiter, currentCfg, tableCfg, lastEvent, events, discovery, startup,
                   reqs, beyondGateway>>

(* A request goroutine. *)

\* AuthMiddleware: the configuration sends the request through jwtAuth
JwtChecked(auth) == auth.Enabled /\ auth.Type = "jwt"

\* OAuth2Middleware: the configuration makes it fetch a token
OAuth2Fetches(auth) == auth.Enabled /\ auth.Type = "oauth2" /\ auth.OAuth2Enabled

SetReq(q, r) == reqs' = [reqs EXCEPT ![q] = r]

\* what a request step leaves alone besides reqs
reqFrame == <<now, cacheVars, currentCfg, routerTable, tableCfg, wpc, widx, lastEvent,
              events, discovery, startup, beyondGateway>>

\* loadRoutes has cleared the router and has yet to register a route that the
\* rest of its loop registers
RebuildUnfinished ==
    /\ wpc = "routes"
    /\ LoadRoutesFrom(Cfg(currentCfg).Routes, widx, startup.serviceDiscovery, discovery,
                      [table |-> routerTable, proxies |-> proxies, built |-> built,
                       directors |-> directors]).table # routerTable

\* Router.ServeHTTP: read r.Router and match the path; no route answers 404
ServeHTTP(q) ==
    /\ reqs[q].pc = "idle"
    /\ \E path \in ReqPaths :
           LET h == Match(routerTable, path, 1)
               seen == [IdleReq EXCEPT !.path = path, !.tblCfg = tableCfg,
                                       !.tblPartial = RebuildUnfinished]
           IN  IF h.kind = "none"
               THEN SetReq(q, [seen EXCEPT !.pc = "done", !.status = 404])
               ELSE SetReq(q, [seen EXCEPT !.pc = "chain", !.handler = h,
                                           !.idx = NextShared(h.chain, 1)])
    /\ UNCHANGED <<limiter, directors, reqFrame>>

AtMiddleware(q, name) ==
    /\ reqs[q].pc = "chain"
    /\ reqs[q].idx <= Len(reqs[q].handler.chain)
    /\ reqs[q].handler.chain[reqs[q].idx] = name

\* the request passed on to the next handler
PassOn(r) == [r EXCEPT !.idx = NextShared(r.handler.chain, r.idx + 1)]

\* the request answered with `code` by a middleware that does not call next
ShortCircuit(r, code) == [r EXCEPT !.pc = "done", !.status = code]

\* the rate limiter that answers 429 and calls next all the same
DenyAndPassOn(r) == [PassOn(r) EXCEPT !.limited = TRUE, !.status = 429]

\* RateLimiterMiddleware, on !limiter.Allow(): http.Error(w, ..., 429); return
Deny(r) == [ShortCircuit(r, 429) EXCEPT !.limited = TRUE]

\* RateLimiterMiddleware: the limiter made at startup, or none
RateLimiterMiddleware(q) ==
    /\ AtMiddleware(q, "RateLimiter")
    /\ IF ~startup.limiterOn
       THEN /\ SetReq(q, PassOn(reqs[q]))
            /\ limiter' = limiter
       ELSE LET res == Allow(limiter, now)
            IN  /\ limiter' = res.limiter
                /\ IF res.ok
                   THEN SetReq(q, PassOn(reqs[q]))
                   ELSE SetReq(q, Deny(reqs[q]))
    /\ UNCHANGED <<directors, reqFrame>>

\* AuthMiddleware: getAuthConfig(), then by type; jwtAuth reads the credential
AuthMiddleware(q) ==
    /\ AtMiddleware(q, "Auth")
    /\ LET auth == Cfg(currentCfg).Auth
           r == [reqs[q] EXCEPT !.cfgSeen = currentCfg]
       IN  IF JwtChecked(auth)
           THEN \E cred \in {"none", "invalid", "valid"} :
                    IF cred = "valid"
                    THEN SetReq(q, PassOn([r EXCEPT !.cred = cred]))
                    ELSE SetReq(q, ShortCircuit([r EXCEPT !.cred = cred], 401))
           ELSE SetReq(q, PassOn(r))
    /\ UNCHANGED <<limiter, directors, reqFrame>>

\* OAuth2Middleware: getAuthConfig(); when OAuth2 is on, fetch a token with the
\* gateway's client credentials
OAuth2Middleware(q) ==
    /\ AtMiddleware(q, "OAuth2")
    /\ LET auth == Cfg(currentCfg).Auth
           r == [reqs[q] EXCEPT !.cfgSeen = currentCfg]
       IN  IF ~OAuth2Fetches(auth)
           THEN SetReq(q, PassOn(r))
           ELSE \E fetched \in BOOLEAN :
                    IF fetched
                    THEN SetReq(q, PassOn(r))
                    ELSE SetReq(q, ShortCircuit(r, 401))
    /\ UNCHANGED <<limiter, directors, reqFrame>>

AtTerminal(q, kind) ==
    /\ reqs[q].pc = "chain"
    /\ reqs[q].idx > Len(reqs[q].handler.chain)
    /\ reqs[q].handler.kind = kind

\* the handler of ProxyHandler: ctx with the timeout as its deadline;
\* proxy.Director = director; proxy.ErrorHandler = ...
ProxySetDirector(q) ==
    /\ AtTerminal(q, "proxy")
    /\ directors' = [directors EXCEPT ![reqs[q].handler.proxy] =
                         HandlerDirector(reqs[q].handler.targetURL)]
    /\ SetReq(q, [reqs[q] EXCEPT !.pc = "serve", !.deadline = reqs[q].handler.timeout])
    /\ UNCHANGED <<limiter, reqFrame>>

\* the transport: a backend answers only at one of its addresses, over http
Reachable(out) == out.Scheme = <<"http">> /\ out.Host \in BackendAddrs

\* proxy.ServeHTTP(w, r.WithContext(ctx)): the Director rewrites the outbound
\* request, the transport sends it, the answer is copied to the client; a
\* transport error or the timeout runs the ErrorHandler, which answers 502
ProxyServeHTTP(q) ==
    /\ reqs[q].pc = "serve"
    /\ LET u == ApplyDirector(directors[reqs[q].handler.proxy], reqs[q].path)
           out == [sent |-> TRUE, Scheme |-> u.Scheme, Host |-> u.Host, Path |-> u.Path]
       IN  IF Reachable(out)
           THEN \E answer \in BackendAnswers :
                    SetReq(q, [reqs[q] EXCEPT !.pc = "done", !.out = out,
                                              !.upstream = answer,
                                              !.status = IF answer = 0 THEN 502 ELSE answer])
           ELSE SetReq(q, [reqs[q] EXCEPT !.pc = "done", !.out = out, !.status = 502])
    /\ UNCHANGED <<limiter, directors, reqFrame>>

\* the handler registered for /metrics
ServeMetrics(q) ==
    /\ AtTerminal(q, "prometheus")
    /\ SetReq(q, [reqs[q] EXCEPT !.pc = "done", !.status = 200])
    /\ UNCHANGED <<limiter, directors, reqFrame>>

\* the response is written and the goroutine serves its next request
Finish(q) ==
    /\ reqs[q].pc = "done"
    /\ SetReq(q, IdleReq)
    /\ UNCHANGED <<limiter, directors, reqFrame>>

Next ==
    \/ DiscoveryChanges
    \/ \E content \in FileContents : WatchEvent(content)
    \/ LoadRoutesClear
    \/ LoadRoutesStep
    \/ \E q \in Requests :
           \/ ServeHTTP(q)
           \/ RateLimiterMiddleware(q)
           \/ AuthMiddleware(q)
           \/ OAuth2Middleware(q)
           \/ ProxySetDirector(q)
           \/ ProxyServeHTTP(q)
           \/ ServeMetrics(q)
           \/ Finish(q)

Spec == Init /\ [][Next]_vars

----------------------------------------------------------------------------
(* One request followed through the layers HandleFunc wrapped around its   *)
(* handler.  Every wrapper has the shape                                   *)
(*     func(w, r) { before; next.ServeHTTP(w, r); after }                  *)
(* so entering a layer pushes it on the goroutine's call stack and the     *)
(* return from it pops it.  A middleware that returned `next` itself (the  *)
(* rate limiter when disabled at startup, tracing without a tracer) adds   *)
(* no layer.  A panic unwinds the stack layer by layer.                    *)

\* the credential a request carries in its Authorization header
Credentials == {"none", "invalid", "valid"}

\* every middleware wraps the handler in a layer, whatever its feature
InstalledAlways(name) == TRUE

\* the middleware wrapped the handler in a layer of its own
Installed(name) ==
    CASE name = "RateLimiter" -> startup.limiterOn
      [] name = "Tracing"     -> startup.tracer
      [] OTHER                -> TRUE

\* the first position from i on of a middleware that added a layer
RECURSIVE NextInstalled(_, _)
NextInstalled(chain, i) ==
    IF i > Len(chain) THEN i
    ELSE IF Installed(chain[i]) THEN i
    ELSE NextInstalled(chain, i + 1)

\* http.ResponseWriter.WriteHeader(code): the first call sets the status, a
\* later one is ignored; 0 stands for no header written yet
WriteHeader(status, code) == IF status = 0 THEN code ELSE status

\* a deadline that ignores the route's timeout
WithDefaultTimeout(timeout) == DefaultTimeout

\* context.WithTimeout(r.Context(), timeout): how long the outbound call may last
WithTimeout(timeout) == timeout

\* what the steps of the followed request leave alone besides limiter and directors
chainFrame == <<now, nCalls, lastCall, raceVars, cacheVars, lockVars, currentCfg,
                routerTable, tableCfg, wpc, widx, lastEvent, events, discovery, startup,
                reqs, rateLimit>>

\* the layer of middleware `name` is entered
Entered(c, name) ==
    [c EXCEPT !.stack = Append(c.stack, name), !.log = Append(c.log, <<"enter", name>>)]

\* next.ServeHTTP(w, r)
Proceed(c) == [c EXCEPT !.next = NextInstalled(c.handler.chain, c.next + 1)]

\* the response is written with `code` and the function returns
Answer(c, code) == [c EXCEPT !.status = WriteHeader(c.status, code), !.pc = "out"]

\* the function panics
Panic(c) == [c EXCEPT !.panic = TRUE, !.faulted = TRUE, !.pc = "out"]

AtLayer(name) ==
    /\ call.pc = "in"
    /\ call.next <= Len(call.handler.chain)
    /\ call.handler.chain[call.next] = name

\* Router.ServeHTTP: the mux matches the path; no route answers 404
CallArrives ==
    /\ call.pc = "idle"
    /\ call.served < MaxServed
    /\ \E path \in ReqPaths, cred \in Credentials :
           LET h == Match(routerTable, path, 1)
               c == [IdleCall EXCEPT !.path = path, !.cred = cred, !.served = call.served]
           IN  IF h.kind = "none"
               THEN call' = [c EXCEPT !.pc = "done", !.status = 404]
               ELSE call' = [c EXCEPT !.pc = "in", !.handler = h,
                                      !.next = NextInstalled(h.chain, 1)]
    /\ UNCHANGED <<limiter, directors, chainFrame>>

\* RecoverMiddleware, RequestLoggerMiddleware, MetricsMiddleware, TracingMiddleware:
\* the part before next.ServeHTTP; the code after the deferred recover() is
\* installed may panic in any layer inside the recovery layer
LocalLayer ==
    /\ \E name \in LocalMiddlewares :
           /\ AtLayer(name)
           /\ \E fault \in BOOLEAN :
                  IF fault /\ name # "Recover"
                  THEN call' = Panic(Entered(call, name))
                  ELSE call' = Proceed(Entered(call, name))
    /\ UNCHANGED <<limiter, directors, chainFrame>>

\* RateLimiterMiddleware's handler
RateLimiterLayer ==
    /\ AtLayer("RateLimiter")
    /\ LET res == Allow(limiter, now)
           c == Entered(call, "RateLimiter")
       IN  /\ limiter' = res.limiter
           /\ call' = IF res.ok THEN Proceed(c) ELSE Answer(c, 429)
    /\ UNCHANGED <<directors, chainFrame>>

\* AuthMiddleware's handler, and jwtAuth's
AuthLayer ==
    /\ AtLayer("Auth")
    /\ LET c == Entered(call, "Auth")
       IN  IF JwtChecked(Cfg(currentCfg).Auth) /\ call.cred # "valid"
           THEN call' = Answer(c, 401)
           ELSE call' = Proceed(c)
    /\ UNCHANGED <<limiter, directors, chainFrame>>

\* OAuth2Middleware's handler; fetchOAuth2Token succeeds or fails
OAuth2Layer ==
    /\ AtLayer("OAuth2")
    /\ LET c == Entered(call, "OAuth2")
       IN  IF ~OAuth2Fetches(Cfg(currentCfg).Auth)
           THEN call' = Proceed(c)
           ELSE \E fetched \in BOOLEAN :
                    call' = IF fetched THEN Proceed(c) ELSE Answer(c, 401)
    /\ UNCHANGED <<limiter, directors, chainFrame>>

AtHandler(kind) ==
    /\ call.pc = "in"
    /\ call.next > Len(call.handler.chain)
    /\ call.handler.kind = kind

\* the handler of ProxyHandler.  The backend answers `answer` after `delay`.
\* No answer before the deadline: the transport returns the context's error and
\* the ErrorHandler answers 502.  An answer in time: its header is written, then
\* its body is copied; when the copy fails, httputil.ReverseProxy panics with
\* http.ErrAbortHandler.
ProxyHandlerRuns ==
    /\ AtHandler("proxy")
    /\ directors' = [directors EXCEPT ![call.handler.proxy] =
                         HandlerDirector(call.handler.targetURL)]
    /\ LET u == ApplyDirector(HandlerDirector(call.handler.targetURL), call.path)
           out == [sent |-> TRUE, Scheme |-> u.Scheme, Host |-> u.Host, Path |-> u.Path]
           deadline == WithTimeout(call.handler.timeout)
           c == [call EXCEPT !.ran = TRUE, !.out = out,
                             !.log = Append(call.log, <<"handler", "proxy">>)]
       IN  IF ~Reachable(out)
           THEN call' = Answer(c, 502)
           ELSE \E answer \in BackendAnswers \ {0}, delay \in BackendDelays,
                   copied \in BOOLEAN :
                    IF delay >= deadline
                    THEN call' = Answer([c EXCEPT !.delay = delay, !.waited = deadline], 502)
                    ELSE LET d == Answer([c EXCEPT !.delay = delay, !.waited = delay,
                                                   !.upstream = answer], answer)
                         IN  call' = IF copied THEN d ELSE Panic(d)
    /\ UNCHANGED <<limiter, chainFrame>>

\* the handler registered for /metrics
PrometheusHandlerRuns ==
    /\ AtHandler("prometheus")
    /\ call' = Answer([call EXCEPT !.ran = TRUE,
                                   !.log = Append(call.log, <<"handler", "prometheus">>)],
                      200)
    /\ UNCHANGED <<limiter, directors, chainFrame>>

\* the innermost entered layer returns or is unwound; RecoverMiddleware's deferred
\* function recovers a panic and calls w.WriteHeader(500)
LayerReturns ==
    /\ call.pc = "out"
    /\ Len(call.stack) > 0
    /\ LET name == call.stack[Len(call.stack)]
           c == [call EXCEPT !.stack = SubSeq(call.stack, 1, Len(call.stack) - 1),
                             !.log = Append(call.log, <<"exit", name>>)]
           d == IF name = "Recover" /\ call.panic
                THEN [c EXCEPT !.panic = FALSE, !.status = WriteHeader(c.status, 500)]
                ELSE c
       IN  call' = IF Len(d.stack) = 0 THEN [d EXCEPT !.pc = "done"] ELSE d
    /\ UNCHANGED <<limiter, directors, chainFrame>>

\* the response is complete; the server takes the next request
CallFinishes ==
    /\ call.pc = "done"
    /\ call' = [IdleCall EXCEPT !.served = call.served + 1]
    /\ UNCHANGED <<limiter, directors, chainFrame>>

InitChain == Init

NextChain ==
    \/ CallArrives
    \/ LocalLayer
    \/ RateLimiterLayer
    \/ AuthLayer
    \/ OAuth2Layer
    \/ ProxyHandlerRuns
    \/ PrometheusHandlerRuns
    \/ LayerReturns
    \/ CallFinishes

SpecChain == InitChain /\ [][NextChain]_vars

----------------------------------------------------------------------------
\* C3: while loadRoutes rebuilds the route table, every request is matched
\* against the complete previous table or the complete new one, never against
\* an empty or partly populated table.
C3_NoPartialTable ==
    \A q \in Requests : reqs[q].pc # "idle" => ~reqs[q].tblPartial

\* C4: every request is served under a consistent pair: the configuration it
\* reads is the one its route table was loaded from.
C4_ConsistentPair ==
    \A q \in Requests :
        reqs[q].cfgSeen # "none" => reqs[q].cfgSeen = reqs[q].tblCfg

\* C5: a change event whose configuration fails to load leaves the current
\* configuration and the route table as they were, for as long as that event
\* is the latest one.
C5_FailedReloadKeepsState ==
    [][lastEvent' = "failed" =>
         (currentCfg' = currentCfg /\ routerTable' = routerTable)]_vars

\* the latest change event failed and the gateway still routes and still
\* points at a configuration
C5_Witness ==
    /\ lastEvent = "failed"
    /\ currentCfg \in ConfigIds
    /\ Len(routerTable) >= 2
    /\ \E q \in Requests : reqs[q].pc = "done" /\ reqs[q].handler.kind = "proxy"

\* C7: a request the rate limiter denies is answered 429 and nothing inside
\* the limiter runs for it: no authentication, no terminal handler, no
\* outbound request.
C7_DeniedNeverForwarded ==
    \A q \in Requests :
        reqs[q].limited =>
            /\ reqs[q].pc = "done"
            /\ reqs[q].status = 429
            /\ reqs[q].handler.chain[reqs[q].idx] = "RateLimiter"
            /\ reqs[q].cred = "unread"
            /\ reqs[q].cfgSeen = "none"
            /\ ~reqs[q].out.sent

\* a request to a proxied route was denied while the bucket was empty
C7_Witness ==
    \E q \in Requests :
        /\ reqs[q].limited
        /\ reqs[q].handler.kind = "proxy"
        /\ limiter.tokens = 0

\* the route of configuration c for a path, resolved through discovery
DiscoveredRoute(c, path) ==
    /\ startup.serviceDiscovery
    /\ \E i \in 1..Len(Cfg(c).Routes) :
           Cfg(c).Routes[i].Path = path /\ Cfg(c).Routes[i].ServiceName # ""

\* C9: a request to a route resolved through discovery to a first instance
\* {H, N} is sent to scheme http, host H:N and the request's path, and the
\* backend's answer is what the client receives.
C9_ForwardedToInstance ==
    \A q \in Requests :
        (reqs[q].out.sent /\ DiscoveredRoute(reqs[q].tblCfg, reqs[q].path)) =>
            \E ans \in DiscoveryAnswers :
                /\ Len(ans.instances) > 0
                /\ reqs[q].handler.targetURL
                       = SprintfTarget(ans.instances[1].Host, ans.instances[1].Port)
                /\ reqs[q].out.Scheme = <<"http">>
                /\ reqs[q].out.Host = <<ans.instances[1].Host, ":", ans.instances[1].Port>>
                /\ reqs[q].out.Path = <<reqs[q].path>>
                /\ reqs[q].upstream # 0 => reqs[q].status = reqs[q].upstream

\* C10: a request matched to a route's handler is sent on with the target and
\* the timeout of that handler, whatever a rebuild of the table does meanwhile.
C10_BoundHandlerUsed ==
    \A q \in Requests :
        reqs[q].out.sent =>
            /\ reqs[q].out.Host = reqs[q].handler.targetURL
            /\ reqs[q].out.Path = <<reqs[q].path>>
            /\ reqs[q].deadline = reqs[q].handler.timeout

\* a request was sent on after a rebuild that completed while it was in flight
\* and that maps its path to another target
C10_Witness ==
    \E q \in Requests :
        /\ reqs[q].out.sent
        /\ events > 0 /\ wpc = "idle"
        /\ Match(routerTable, reqs[q].path, 1).kind = "proxy"
        /\ Match(routerTable, reqs[q].path, 1).targetURL # reqs[q].handler.targetURL

----------------------------------------------------------------------------
\* the order in which main() declares the middlewares, as the claim lists it
DeclaredOrder ==
    <<"Recover", "RequestLogger", "Metrics", "RateLimiter", "Auth", "OAuth2", "Tracing">>

\* the names of the events of one kind in a log, in the order they happened
RECURSIVE Names(_, _)
Names(log, kind) ==
    IF Len(log) = 0 THEN << >>
    ELSE IF Head(log)[1] = kind THEN <<Head(log)[2]>> \o Names(Tail(log), kind)
    ELSE Names(Tail(log), kind)

Reverse(seq) == [i \in 1..Len(seq) |-> seq[Len(seq) + 1 - i]]

\* C11: the layers of a request are entered in the order recovery, logging,
\* metrics, rate limiting, auth, OAuth2, tracing (those that added a layer), they
\* return in the reverse order, the recovery layer is entered first and returns
\* last, and the terminal handler runs only after every layer was entered.
C11_DeclaredOrderInReverseOut ==
    LET entered == Names(call.log, "enter")
        exited  == Names(call.log, "exit")
        layers  == SelectSeq(DeclaredOrder, Installed)
    IN  /\ Len(entered) <= Len(layers)
        /\ \A i \in 1..Len(entered) : entered[i] = layers[i]
        /\ entered = call.stack \o Reverse(exited)
        /\ call.ran =>
               /\ entered = layers
               /\ call.log[Len(layers) + 1][1] = "handler"
        /\ (call.pc = "done" /\ call.handler.kind # "none") =>
               /\ call.log[1] = <<"enter", "Recover">>
               /\ call.log[Len(call.log)] = <<"exit", "Recover">>
               /\ exited = Reverse(entered)

\* a request passed all seven layers, reached the proxy handler and returned
\* through all seven
C11_Witness ==
    /\ call.pc = "done"
    /\ call.ran
    /\ call.handler.kind = "proxy"
    /\ Len(call.log) = 15
    /\ ~call.faulted

\* C12: a panic in a layer or in the terminal handler inside the recovery layer
\* is caught there and the response of that request has status 500.
C12_PanicAnswered500 ==
    (call.pc = "done" /\ call.faulted) => (~call.panic /\ call.status = 500)

\* C13: while authentication is enabled in the current configuration, a request
\* whose credential is missing or invalid never reaches the terminal handler,
\* and its response is 401 (or the 429 or 500 of a layer outside authentication).
C13_UnauthenticatedNeverServed ==
    (Cfg(currentCfg).Auth.Enabled /\ call.cred # "valid" /\ call.handler.kind # "none") =>
        /\ ~call.ran
        /\ call.pc = "done" => call.status \in {401, 429, 500}

C15_MetricsRoutable ==
    wpc = "idle" => Match(routerTable, "/metrics", 1).kind = "prometheus"

\* the route a configuration gives for a path
RouteFor(c, path) ==
    CHOOSE r \in {Cfg(c).Routes[i] : i \in 1..Len(Cfg(c).Routes)} : r.Path = path

\* the registered routes that forward to a backend
ProxyEntries == {i \in 1..Len(routerTable) : routerTable[i].handler.kind = "proxy"}

\* C16 as claimed: a registered route whose configuration gives a static target
\* URL forwards to that URL, also when the route names a service and discovery
\* is enabled.
C16_StaticUrlFirst ==
    \A i \in ProxyEntries :
        LET r == RouteFor(tableCfg, routerTable[i].path)
        IN  r.TargetURL # EmptyString => routerTable[i].handler.targetURL = r.TargetURL

\* C16 as amended: a registered route that names a service while the discovery
\* client exists forwards to http://H:N of a first discovered instance, whatever
\* its static URL; any other registered route forwards to its static URL.
C16_DiscoveryFirst ==
    \A i \in ProxyEntries :
        LET r == RouteFor(tableCfg, routerTable[i].path)
            target == routerTable[i].handler.targetURL
        IN  IF r.ServiceName # "" /\ startup.serviceDiscovery
            THEN \E ans \in DiscoveryAnswers :
                     /\ Len(ans.instances) > 0
                     /\ target = <<"http", "://", ans.instances[1].Host, ":",
                                   ans.instances[1].Port>>
            ELSE r.TargetURL # EmptyString /\ target = r.TargetURL

\* a route with both a static URL and a service name is registered with the
\* address of a discovered instance
C16_Witness ==
    \E i \in ProxyEntries :
        LET r == RouteFor(tableCfg, routerTable[i].path)
        IN  /\ r.TargetURL # EmptyString
            /\ r.ServiceName # ""
            /\ routerTable[i].handler.targetURL # r.TargetURL

\* the configured rate is below one request per second
SlowRate ==
    /\ rateLimit.Requests > 0
    /\ rateLimit.Interval > 0
    /\ rateLimit.Requests * Second < rateLimit.Interval

\* C17: a limiter configured with a rate below one request per second refills
\* one token every interval / requests.
C17_SlowRateKeepsAverage ==
    SlowRate =>
        /\ limiter.refillPerInterval = 1
        /\ limiter.refillInterval = rateLimit.Interval \div rateLimit.Requests

\* discovery answers for the service of a route with at least one instance
DiscoveryGives(r) ==
    /\ r.ServiceName # ""
    /\ startup.serviceDiscovery
    /\ r.ServiceName \in DOMAIN discovery
    /\ ~discovery[r.ServiceName].err
    /\ Len(discovery[r.ServiceName].instances) > 0

\* the route has a static URL that the proxy cache accepts
StaticGives(r) == r.TargetURL # EmptyString /\ ~UrlParse(r.TargetURL).err

\* the watcher goroutine takes a step of loadRoutes
WatcherSteps == <<wpc, widx>>' # <<wpc, widx>>

\* the step of loadRoutes over route r registers r and keeps the routes before it
Registers(r) ==
    /\ Len(routerTable') = Len(routerTable) + 1
    /\ SubSeq(routerTable', 1, Len(routerTable)) = routerTable
    /\ routerTable'[Len(routerTable')].path = r.Path
    /\ routerTable'[Len(routerTable')].handler.kind = "proxy"

\* a reload starts from no routes, and once it has completed every routed path
\* is a path of the configuration it loaded
PreviousDiscarded ==
    /\ (wpc = "clear" /\ WatcherSteps) => routerTable' = << >>
    /\ (wpc' = "idle" /\ lastEvent' = "loaded") =>
           \A i \in 1..Len(routerTable') :
               \E j \in 1..Len(Cfg(currentCfg').Routes) :
                   Cfg(currentCfg').Routes[j].Path = routerTable'[i].path

\* C18: loadRoutes registers a route if and only if its target resolved and the
\* proxy cache accepted it (for a route that names a service while the discovery
\* client exists, resolved means that discovery gave an instance; for any other
\* route it means a non-empty static URL); a route that is skipped does not stop
\* the routes after it, and the routes of the previous configuration are
\* discarded.
C18_RegisteredIffResolved ==
    [][/\ (wpc = "routes" /\ WatcherSteps) =>
              LET r == Cfg(currentCfg).Routes[widx]
                  resolved == IF r.ServiceName # "" /\ startup.serviceDiscovery
                              THEN DiscoveryGives(r)
                              ELSE StaticGives(r)
              IN  IF resolved
                  THEN Registers(r)
                  ELSE routerTable' = routerTable
       /\ PreviousDiscarded]_vars

\* a reload has completed in which the first route was skipped and the second
\* registered, and a path of the other configurations is no longer routed
C18_Witness ==
    /\ wpc = "idle"
    /\ lastEvent = "loaded"
    /\ currentCfg = "C"
    /\ Len(routerTable) = 1
    /\ routerTable[1].path = "/api/users"
    /\ Match(routerTable, "/api/orders", 1).kind = "none"

\* C19: the admission decision of a request follows the rate-limit settings of
\* the configuration that is current when the request is served; in particular
\* once a reload has completed, no request is denied while the current
\* configuration has rate limiting disabled.
C19_AdmissionUnderCurrentSettings ==
    [][\A q \in Requests :
           (wpc = "idle" /\ ~reqs[q].limited /\ reqs'[q].limited) =>
               Cfg(currentCfg).RateLimit.Enabled]_vars

\* C20: the target of a request is resolved when the request is handled: with no
\* reload since the start, the terminal handler of a route that names a service
\* forwards to the first instance discovery returns at that moment.
C20_TargetResolvedPerRequest ==
    [][\A q \in Requests :
           (/\ events = 0
            /\ reqs[q].pc = "chain"
            /\ reqs'[q].pc = "serve"
            /\ DiscoveryGives(RouteFor(currentCfg, reqs[q].path))) =>
               LET first == discovery[RouteFor(currentCfg, reqs[q].path).ServiceName].instances[1]
               IN  directors'[reqs[q].handler.proxy].targetURL =
                       SprintfTarget(first.Host, first.Port)]_vars

----------------------------------------------------------------------------
\* the token count the claim gives for a refill at the current instant
TokensAfterRefill ==
    LET elapsed == now - limiter.lastRefillTime
        added == (elapsed \div limiter.refillInterval) * limiter.refillPerInterval
    IN  IF elapsed >= limiter.refillInterval
        THEN IF limiter.tokens + added > limiter.capacity
             THEN limiter.capacity
             ELSE limiter.tokens + added
        ELSE limiter.tokens

\* C21: the refill at the start of an Allow() call changes the limiter only when
\* the time elapsed since lastRefillTime is at least refillInterval: tokens become
\* min(capacity, tokens + floor(elapsed / refillInterval) * refillPerInterval)
\* (less the token the call takes) and lastRefillTime becomes now; below one
\* interval lastRefillTime stays and tokens change by the admission only.  The
\* passing of time alone changes nothing of the limiter.
C21_RefillOnlyAfterInterval ==
    [][/\ now' # now => limiter' = limiter
       /\ now' = now =>
              /\ limiter'.tokens \in {TokensAfterRefill, TokensAfterRefill - 1}
              /\ limiter'.tokens = TokensAfterRefill - 1 <=> TokensAfterRefill > 0
              /\ limiter'.lastRefillTime =
                     IF now - limiter.lastRefillTime >= limiter.refillInterval
                     THEN now
                     ELSE limiter.lastRefillTime
              /\ limiter'.capacity = limiter.capacity
              /\ limiter'.refillInterval = limiter.refillInterval
              /\ limiter'.refillPerInterval = limiter.refillPerInterval]_vars

\* a call has refilled the bucket, and a later call made less than one interval
\* after it has left lastRefillTime where it was
C21_Witness ==
    /\ lastCall.made
    /\ lastCall.elapsed > 0
    /\ lastCall.elapsed < limiter.refillInterval
    /\ limiter.lastRefillTime > 0
    /\ limiter.lastRefillTime < lastCall.at

\* the layer of middleware `name` was entered by the request being followed
LayerEntered(name) == \E i \in 1..Len(call.log) : call.log[i] = <<"enter", name>>

StaticTarget(r) ==
    /\ ~(r.ServiceName # "" /\ startup.serviceDiscovery)
    /\ r.TargetURL # EmptyString

\* C23: GetProxy called with a target that fails to parse returns an error and
\* no handler and inserts nothing into the cache; loadRoutes then registers
\* nothing for that route and goes on with the route after it.
C23_UnparseableTargetSkipped ==
    [][(/\ wpc = "routes"
        /\ WatcherSteps
        /\ StaticTarget(Cfg(currentCfg).Routes[widx])
        /\ UrlParse(Cfg(currentCfg).Routes[widx].TargetURL).err) =>
           LET r == Cfg(currentCfg).Routes[widx]
               got == GetProxy(proxies, built, r.TargetURL)
           IN  /\ got.err
               /\ got.proxy = 0
               /\ proxies' = proxies
               /\ built' = built
               /\ ~CacheHas(proxies', r.TargetURL)
               /\ routerTable' = routerTable
               /\ widx < Len(Cfg(currentCfg).Routes) =>
                      (wpc' = "routes" /\ widx' = widx + 1)]_vars

\* a reload has completed whose first route has a target that does not parse:
\* the cache has no entry for that string, and the route after it is registered
\* with a cached handler
C23_Witness ==
    /\ wpc = "idle"
    /\ lastEvent = "loaded"
    /\ currentCfg = "C"
    /\ UrlParse(ConfigC.Routes[1].TargetURL).err
    /\ ~CacheHas(proxies, ConfigC.Routes[1].TargetURL)
    /\ Match(routerTable, "/v1", 1).kind = "none"
    /\ Match(routerTable, "/api/users", 1).kind = "proxy"
    /\ CacheHas(proxies, Match(routerTable, "/api/users", 1).targetURL)

\* ten seconds, in milliseconds
TenSeconds == 10 * Second

\* C24: a route whose timeout string fails to parse is registered whenever its
\* target resolved and the proxy cache accepted it, with a timeout of ten
\* seconds; the bad timeout string never causes the route to be skipped.
C24_BadTimeoutDefaultsToTenSeconds ==
    [][(/\ wpc = "routes"
        /\ WatcherSteps
        /\ ParseDuration(Cfg(currentCfg).Routes[widx].Timeout).err) =>
           LET r == Cfg(currentCfg).Routes[widx]
               resolved == IF r.ServiceName # "" /\ startup.serviceDiscovery
                           THEN DiscoveryGives(r)
                           ELSE StaticGives(r)
           IN  resolved =>
                   /\ Registers(r)
                   /\ routerTable'[Len(routerTable')].handler.timeout = TenSeconds]_vars

\* a reload has registered the route whose timeout is written "soon", and its
\* handler has a timeout of ten seconds
C24_Witness ==
    /\ wpc = "idle"
    /\ lastEvent = "loaded"
    /\ currentCfg = "B"
    /\ ParseDuration(RouteFor("B", "/api/orders").Timeout).err
    /\ Match(routerTable, "/api/orders", 1).kind = "proxy"
    /\ Match(routerTable, "/api/orders", 1).timeout = TenSeconds

\* C25: a cached forwarding handler is not modified after it is inserted into
\* the proxy cache: no step writes the Director of a handler that exists.
C25_CachedHandlerNotModified ==
    [][\A i \in 1..Len(directors) :
           i <= Len(directors') /\ directors'[i] = directors[i]]_vars

\* the watcher goroutine handles an event or takes a step of loadRoutes
ReloadSteps == <<wpc, widx, events, currentCfg, routerTable>>' # <<wpc, widx, events, currentCfg, routerTable>>

====
